---- MODULE Spec2Model ----
(***************************************************************************)
(* console-genius (src/index.js): the log-entry pipeline (filter, metadata *)
(* formatting, rendering, transport fan-out), the configuration setters,   *)
(* the error deduplication cache with its periodic sweep, the metrics      *)
(* store with its getStats snapshot, and the traceFn wrapper.              *)
(*                                                                         *)
(* JavaScript strings that the code takes apart (namespaces and the        *)
(* namespace filter) are sequences of one-character strings, so that       *)
(* split(','), startsWith('-'), substring(1) and the regular-expression    *)
(* match are computed and not assumed.  Other strings (level names,        *)
(* option keys) are only compared or used as keys and stay TLA+ strings.   *)
(***************************************************************************)
EXTENDS Integers, Sequences, FiniteSets, TLC

VARIABLES
    options,     \* the module-level options record (index.js:6-20)
    last,        \* what the most recent call did: its inputs and its outcome
    errorCache,  \* errors: signature -> entry; cleanup: the interval's handle (index.js:78-81)
    now,         \* the clock read by Date.now()
    tally,       \* per signature: what logError handed to log() since first sighting
    metrics,     \* the metrics store (index.js:70-75)
    heap,        \* the arrays and timer objects the store and snapshots refer to
    stats,       \* the structure a caller holds from its last getStats()
    recorded,    \* per timer name: the durations recorded since the timer was created
    applied,     \* per counter name: the sum of the increments since its last reset
    chosen,      \* what the format setters were last called with
    calls,       \* the invocations of traced callables: what was run, what the caller got
    intervals,   \* the intervals the runtime holds active: handle, period, next due time
    http         \* one HttpTransport: its queue, its requests in flight, its timer

vars == <<options, last, errorCache, now, tally, metrics, heap, stats, recorded, applied, chosen, calls,
         intervals, http>>

None == "none"

(***************************************************************************)
(* Bounds of the model.                                                    *)
(***************************************************************************)
MaxTransports == 2
MaxDup == 3            \* the largest maxDuplicateCount configured
MaxOccurrences == 13   \* the largest count a signature is driven to
MaxCached == 1         \* signatures held by the cache at a time, in the count runs
MaxTime == 3           \* the clock's last value, in the sweep runs
MaxSwept == 2          \* the largest count a signature is driven to, in the sweep runs
MaxSamples == 2        \* the longest histogram and timer sample window
MaxCounter == 1        \* the largest counter value
MaxKinds == 1          \* kinds of metric (counter, gauge, ...) the store holds at a time
MaxRecordings == 150   \* recordings of one timer, in the timing runs
MaxSum == 7            \* the largest sum of a counter, in the counter runs
MaxBelow == 1          \* how far below zero a counter's sum goes, in the counter runs
MaxCalls == 2          \* invocations of traced callables
MaxAccepted == 4       \* entries one HttpTransport accepts
HttpBatchSize == 2     \* options.batchSize of the HttpTransport

(***************************************************************************)
(* Levels.                                                                 *)
(***************************************************************************)
\* index.js:26-33
logLevels == [trace |-> 0, debug |-> 1, info |-> 2, warn |-> 3, error |-> 4, fatal |-> 5]

Hierarchy == DOMAIN logLevels

\* logLevels is an object literal: a lookup also finds what it inherits from
\* Object.prototype (a function, which is truthy and compares as NaN).
ObjectPrototypeKeys == {"constructor"}

\* logLevels[name] as a JavaScript value.
LevelLookup(name) ==
    IF name \in Hierarchy THEN [type |-> "number", n |-> logLevels[name]]
    ELSE IF name \in ObjectPrototypeKeys THEN [type |-> "function", n |-> 0]
    ELSE [type |-> "undefined", n |-> 0]

\* JavaScript truthiness of a lookup result: 0 and undefined are falsy.
Truthy(v) == \/ v.type = "function"
             \/ v.type = "number" /\ v.n # 0

\* A variant of JsLess that compares a missing rank as rank 0.
JsLessMissingAsZero(a, b) == a.n < b.n

\* a < b on lookup results: false as soon as one side is not a number.
JsLess(a, b) == a.type = "number" /\ b.type = "number" /\ a.n < b.n

(***************************************************************************)
(* Namespaces and the namespace filter, as character sequences.            *)
(***************************************************************************)
NsDefault == <<"d", "e", "f", "a", "u", "l", "t">>
NsDb      == <<"d", "b">>
NsAuth    == <<"a", "u", "t", "h">>
NsApi     == <<"a", "p", "i">>

Namespaces == {NsDefault, NsDb, NsAuth, NsApi}

Wildcard         == <<"*">>
FilterNegAuthDb  == <<"-", "a", "u", "t", "h", ",", "d", "b">>

Filters == {Wildcard, FilterNegAuthDb}

\* String.prototype.split(','), from position i with the piece cur collected so far.
RECURSIVE SplitFrom(_, _, _)
SplitFrom(s, i, cur) ==
    IF i > Len(s) THEN <<cur>>
    ELSE IF s[i] = "," THEN <<cur>> \o SplitFrom(s, i + 1, <<>>)
    ELSE SplitFrom(s, i + 1, Append(cur, s[i]))

split(s) == SplitFrom(s, 1, <<>>)

startsWithDash(pattern) == Len(pattern) >= 1 /\ pattern[1] = "-"

substring1(pattern) == SubSeq(pattern, 2, Len(pattern))

\* namespace.match(new RegExp(pattern)) for a pattern of plain letters: the
\* pattern occurs somewhere in the namespace (an unanchored match).
match(namespace, pattern) ==
    \E i \in 0..(Len(namespace) - Len(pattern)) :
        SubSeq(namespace, i + 1, i + Len(pattern)) = pattern

\* The callback of patterns.some(...) in shouldLog.
patternAdmits(pattern, namespace) ==
    IF startsWithDash(pattern)
    THEN ~match(namespace, substring1(pattern))
    ELSE match(namespace, pattern)

levelBelowMin(level) == JsLess(LevelLookup(level), LevelLookup(options.minLevel))

shouldLog(level, namespace) ==
    IF levelBelowMin(level) THEN FALSE
    ELSE IF options.enabledNamespaces = Wildcard THEN TRUE
    ELSE LET patterns == split(options.enabledNamespaces)
         IN  \E i \in 1..Len(patterns) : patternAdmits(patterns[i], namespace)

(***************************************************************************)
(* Metadata and its rendering.                                             *)
(***************************************************************************)
\* The kinds of value a caller passes as metadata: nothing (null after the
\* default parameter), a primitive, an object that JSON.stringify rejects (a
\* cycle); the error values below add serializable objects.
MetaKinds == {"null", "primitive", "cyclic"}

\* formatValue(value): what it returns, or that it throws.
formatValue(value) ==
    IF value \in {"object", "cyclic", "Error"}
    THEN IF value = "cyclic"
         THEN [threw |-> TRUE, text |-> None]
         ELSE [threw |-> FALSE, text |-> "json"]
    ELSE [threw |-> FALSE, text |-> "string"]

(***************************************************************************)
(* Rendering.  A template is the sequence of its pieces: ${...} tokens and *)
(* the text between them; the empty sequence is the empty string.          *)
(***************************************************************************)
\* index.js:15 and 228: the library's own template.
TemplateDefault ==
    <<"${emoji}", " ", "${level}", " ", "${timestamp}", " ", "${source}", " +",
      "${timeDiff}", " - ", "${message}", " ", "${metadata}">>

\* test.js:52, a template with a token formatLog does not know, and ''.
TemplateSimple == <<"${level}", " - ", "${message}">>
TemplateUnknown == <<"${message}", " ", "${user}">>
TemplateEmpty == <<>>

Templates == {TemplateDefault, TemplateSimple, TemplateUnknown, TemplateEmpty}

\* Values of options.formatFn: functions, and values that are none.
FormatFunctions == {"f", "g"}

\* formatLog(format, logEntry): every known token is replaced by the entry's
\* field, an unknown token and the text between tokens stay.
formatLog(format, logEntry) ==
    [i \in 1..Len(format) |->
        CASE format[i] = "${emoji}"     -> "emoji"
          [] format[i] = "${level}"     -> logEntry.level
          [] format[i] = "${timestamp}" -> "timestamp"
          [] format[i] = "${source}"    -> "source"
          [] format[i] = "${timeDiff}"  -> "timeDiff"
          [] format[i] = "${message}"   -> logEntry.message
          [] format[i] = "${metadata}"  -> logEntry.metadata
          [] format[i] = "${namespace}" -> "namespace"
          [] OTHER -> format[i]]

\* index.js:225-232: logEntry.formattedMessage.  by: what produced the text
\* (the parts joined at line 223, the format function, or the template).
formattedMessage(logEntry) ==
    IF options.formatFn \in FormatFunctions
    THEN [by |-> "formatFn", fn |-> options.formatFn, text |-> <<>>]
    ELSE IF options.format # <<>> /\ options.format # TemplateDefault
    THEN [by |-> "template", fn |-> None, text |-> formatLog(options.format, logEntry)]
    ELSE [by |-> "parts", fn |-> None, text |-> <<>>]

NotFormatted == [by |-> None, fn |-> None, text |-> <<>>]

(***************************************************************************)
(* Transports.                                                             *)
(***************************************************************************)
Str(name) == [type |-> "string", name |-> name, log |-> None]
Obj(name, log) == [type |-> "object", name |-> name, log |-> log]

\* index.js:60-67 and 710-711: console is an object with a log function; file
\* and http are registered as the classes themselves, which have no static log.
transportRegistry == [console |-> "sink", file |-> "class", http |-> "class"]

\* What callers hand to addTransport / removeTransport.
TransportInputs ==
    { Str("console"), Str("file"), Str("syslog"),
      Obj("memory", "returns"), Obj("broken", "throws"), Obj("nolog", None) }

\* options.transports.forEach(...) from position i: the positions whose log
\* operation was invoked, and whether the loop was left by an exception.
RECURSIVE forEachTransport(_, _)
forEachTransport(transports, i) ==
    IF i > Len(transports) THEN [invoked |-> {}, threw |-> FALSE]
    ELSE
      LET t == transports[i]
          rest == forEachTransport(transports, i + 1)
      IN
        IF t.type = "string"
        THEN IF t.name \notin DOMAIN transportRegistry THEN rest
             ELSE IF transportRegistry[t.name] = "class"
                  THEN [invoked |-> {}, threw |-> TRUE]
                  ELSE [invoked |-> {i} \cup rest.invoked, threw |-> rest.threw]
        ELSE IF t.log = None THEN rest
        ELSE IF t.log = "throws" THEN [invoked |-> {i}, threw |-> TRUE]
        ELSE [invoked |-> {i} \cup rest.invoked, threw |-> rest.threw]

\* log(level, message, metadata, namespace): the outcome of one call.
\*   admitted: shouldLog let it through;  failure: where the call threw;
\*   rendered: the text put for the metadata;  invoked: transports reached.
\* The parameter default (metadata = null) also replaces an undefined argument.
log(level, message, metadata, namespace) ==
    IF ~shouldLog(level, namespace)
    THEN [admitted |-> FALSE, failure |-> None, rendered |-> None,
          formatted |-> NotFormatted, dispatched |-> FALSE, invoked |-> {}]
    ELSE
      LET fv == IF metadata \notin {"null", "undefined"} THEN formatValue(metadata)
                ELSE [threw |-> FALSE, text |-> ""]
      IN
        IF fv.threw
        THEN [admitted |-> TRUE, failure |-> "formatValue", rendered |-> None,
              formatted |-> NotFormatted, dispatched |-> FALSE, invoked |-> {}]
        ELSE
          LET d == forEachTransport(options.transports, 1)
          IN  [admitted |-> TRUE,
               failure |-> IF d.threw THEN "transport" ELSE None,
               rendered |-> fv.text,
               formatted |-> formattedMessage([level |-> level, message |-> message,
                                               metadata |-> fv.text]),
               dispatched |-> TRUE, invoked |-> d.invoked]

\* The outcome record of a call that never reached log().
NoCall == [admitted |-> FALSE, failure |-> None, rendered |-> None,
           formatted |-> NotFormatted,
           dispatched |-> FALSE, invoked |-> {}]

(***************************************************************************)
(* Error deduplication.                                                    *)
(***************************************************************************)
\* The kinds of value a caller passes as the error: an Error instance, a plain
\* serializable object, a plain object with a cycle, a primitive, null, and
\* undefined (the caller passed only a message).
ErrorValues == {"Error", "object", "cyclic", "primitive", "null", "undefined"}

getErrorSignature(error) ==
    CASE error = "primitive" -> "String(primitive)"
      [] error = "null"      -> "null"
      [] error = "undefined" -> "undefined"
      [] error = "Error"     -> "name:message:stack"
      [] error = "object"    -> "JSON"
      [] error = "cyclic"    -> "[object Object]"

Signatures == { getErrorSignature(e) : e \in ErrorValues }

\* A signature that errorCache.errors does not hold, and Map.prototype.has.
NoEntry == [absent |-> TRUE]

Has(errors, signature) == errors[signature] # NoEntry

\* index.js:661: a roll-up every this many occurrences past the threshold.
SummaryEvery == 10

\* A variant of dedupBranch that annotates one occurrence more with the running
\* count before the last individual emission.
dedupBranchOneMore(count, maxDuplicateCount) ==
    IF count <= maxDuplicateCount + 1 THEN "counted"
    ELSE IF count = maxDuplicateCount + 2 THEN "final"
    ELSE IF (count - maxDuplicateCount) % SummaryEvery = 0 THEN "summary"
    ELSE "silent"

\* The branch logError takes for a signature seen before, by its new count.
dedupBranch(count, maxDuplicateCount) ==
    IF count <= maxDuplicateCount THEN "counted"
    ELSE IF count = maxDuplicateCount + 1 THEN "final"
    ELSE IF (count - maxDuplicateCount) % SummaryEvery = 0 THEN "summary"
    ELSE "silent"

\* index.js:665 reads error.name while building the roll-up's metadata: a
\* TypeError for null and undefined, before log() is called.
summaryMetadataThrows(error) == error \in {"null", "undefined"}

\* The history kept beside a cache entry: how many calls of each message form
\* logError has made to log() for the signature since its first sighting, and
\* how many occurrences made no call.
TallyZero == [first |-> 0, counted |-> 0, final |-> 0, summary |-> 0, none |-> 0]

Bump(t, branch, handed) ==
    IF ~handed THEN [t EXCEPT !.none = @ + 1]
    ELSE CASE branch = "counted" -> [t EXCEPT !.counted = @ + 1]
           [] branch = "final"   -> [t EXCEPT !.final = @ + 1]
           [] branch = "summary" -> [t EXCEPT !.summary = @ + 1]

\* logError(message, error): dbg.error and every namespaced logger's error
\* method end here; the namespace a namespaced logger passes as a third
\* argument is not a parameter of logError, so log() runs with its default.
logError(logger, error) ==
    IF ~options.deduplicateErrors
    THEN /\ last' = [op |-> "error", logger |-> logger, error |-> error,
                     dedup |-> FALSE, k |-> 0, branch |-> "plain", handed |-> TRUE,
                     level |-> "error", namespace |-> NsDefault, metadata |-> error,
                     out |-> log("error", "original", error, NsDefault)]
         /\ UNCHANGED <<errorCache, tally>>
    ELSE
      LET signature == getErrorSignature(error) IN
        IF ~Has(errorCache.errors, signature)
        THEN /\ errorCache' = [errorCache EXCEPT !.errors[signature] =
                     [count |-> 1, firstSeen |-> now, lastSeen |-> now, error |-> error]]
             /\ tally' = [tally EXCEPT ![signature] = [TallyZero EXCEPT !.first = 1]]
             /\ last' = [op |-> "error", logger |-> logger, error |-> error,
                         dedup |-> TRUE, k |-> 1, branch |-> "first", handed |-> TRUE,
                         level |-> "error", namespace |-> NsDefault, metadata |-> error,
                         out |-> log("error", "original", error, NsDefault)]
        ELSE
          LET entry == errorCache.errors[signature]
              count == entry.count + 1
              branch == dedupBranch(count, options.maxDuplicateCount)
              handed == \/ branch \in {"counted", "final"}
                        \/ branch = "summary" /\ ~summaryMetadataThrows(error)
              metadata == IF branch = "summary" THEN "object" ELSE error
          IN /\ errorCache' = [errorCache EXCEPT !.errors[signature] =
                     [entry EXCEPT !.count = count, !.lastSeen = now]]
             /\ tally' = [tally EXCEPT ![signature] = Bump(@, branch, handed)]
             /\ last' = [op |-> "error", logger |-> logger, error |-> error,
                         dedup |-> TRUE, k |-> count, branch |-> branch, handed |-> handed,
                         level |-> "error", namespace |-> NsDefault, metadata |-> metadata,
                         out |-> IF handed THEN log("error", branch, metadata, NsDefault)
                                 ELSE NoCall]

\* Whether the call recorded in last ended by throwing to its caller.
Threw(l) == \/ l.op = "error" /\ l.branch = "summary" /\ ~l.handed
            \/ l.op \in {"log", "error"} /\ l.out.failure # None
            \/ l.op \in {"setLevel", "addTransport"} /\ l.threw

(***************************************************************************)
(* The operations of the logging and configuration surface.                *)
(***************************************************************************)
LogMethods == {"trace", "debug", "info", "success", "warn", "fatal"}

\* dbg.<method>(message, metadata) and dbg(namespace).<method>(message, metadata)
\* for the methods that call log() directly.
LogCall(method, namespace, metadata) ==
    /\ last' = [op |-> "log", logger |-> namespace, handed |-> TRUE,
                level |-> method, namespace |-> namespace, metadata |-> metadata,
                out |-> log(method, "original", metadata, namespace)]
    /\ UNCHANGED <<options, errorCache, now, tally, metrics, heap, stats, recorded, applied, chosen, calls, intervals, http>>

\* dbg.error(message, error) and dbg(namespace).error(message, error).
ErrorCall(logger, error) ==
    /\ logError(logger, error)
    /\ UNCHANGED <<options, now, metrics, heap, stats, recorded, applied, chosen, calls, intervals, http>>

setLevel(level) ==
    /\ IF ~Truthy(LevelLookup(level))
       THEN /\ last' = [op |-> "setLevel", level |-> level, threw |-> TRUE,
                        before |-> options.minLevel]
            /\ UNCHANGED options
       ELSE /\ last' = [op |-> "setLevel", level |-> level, threw |-> FALSE,
                        before |-> options.minLevel]
            /\ options' = [options EXCEPT !.minLevel = level]
    /\ UNCHANGED <<errorCache, now, tally, metrics, heap, stats, recorded, applied, chosen, calls, intervals, http>>

\* { ...options, ...newOptions }: newOptions is a function from option keys.
Merge(old, newOptions) ==
    [k \in DOMAIN old |-> IF k \in DOMAIN newOptions THEN newOptions[k] ELSE old[k]]

\* errorCache.cleanup before the first setInterval (index.js:80): null.
NoHandle == 0

\* clearInterval(handle): the interval with that handle is no longer active.
clearInterval(active, handle) == { t \in active : t.id # handle }

\* setInterval(callback, period) at time t: a new active interval under a
\* handle no active interval has; it first comes due one period from t.
setInterval(active, period, t) ==
    LET handle == CHOOSE h \in 1..(Cardinality(active) + 1) :
                      \A i \in active : i.id # h
    IN [handle |-> handle,
        active |-> active \cup {[id |-> handle, period |-> period, due |-> t + period]}]

\* A variant of setupErrorCacheCleanup that starts the new interval without
\* clearing the one held before.
setupErrorCacheCleanupKeepOld(opts, cleanup, active, t) ==
    LET started == setInterval(active, opts.errorWindowMs \div 2, t)
    IN [cleanup |-> started.handle, intervals |-> started.active]

\* setupErrorCacheCleanup() at time t under the options opts: the interval held
\* in errorCache.cleanup, if any, is cleared and one with period
\* errorWindowMs / 2 is started and held.  (The windows of this model are even,
\* so the integer quotient is the quotient.)
setupErrorCacheCleanup(opts, cleanup, active, t) ==
    LET kept == IF cleanup # NoHandle THEN clearInterval(active, cleanup) ELSE active
        started == setInterval(kept, opts.errorWindowMs \div 2, t)
    IN [cleanup |-> started.handle, intervals |-> started.active]

setOptions(newOptions) ==
    /\ options' = Merge(options, newOptions)
    /\ IF "errorWindowMs" \in DOMAIN newOptions
       THEN LET setup == setupErrorCacheCleanup(options', errorCache.cleanup,
                                                intervals, now)
            IN /\ errorCache' = [errorCache EXCEPT !.cleanup = setup.cleanup]
               /\ intervals' = setup.intervals
       ELSE UNCHANGED <<errorCache, intervals>>
    /\ last' = [op |-> "setOptions", keys |-> DOMAIN newOptions]
    /\ UNCHANGED <<now, tally, metrics, heap, stats, recorded, applied, chosen, calls, http>>

\* What the format setters established: the function of the last
\* setFormatFunction since the last setFormat, and the template of the last
\* setFormat.
NoChoice == [fn |-> None, template |-> <<"(none)">>]

setFormat(format) ==
    /\ options' = [options EXCEPT !.format = format, !.formatFn = "null"]
    /\ chosen' = [fn |-> None, template |-> format]
    /\ last' = [op |-> "setFormat"]
    /\ UNCHANGED <<errorCache, now, tally, metrics, heap, stats, recorded, applied, calls, intervals, http>>

setFormatFunction(fn) ==
    /\ IF fn \notin FormatFunctions
       THEN /\ last' = [op |-> "setFormatFunction", threw |-> TRUE]
            /\ UNCHANGED <<options, chosen>>
       ELSE /\ options' = [options EXCEPT !.formatFn = fn]
            /\ chosen' = [chosen EXCEPT !.fn = fn]
            /\ last' = [op |-> "setFormatFunction", threw |-> FALSE]
    /\ UNCHANGED <<errorCache, now, tally, metrics, heap, stats, recorded, applied, calls, intervals, http>>

\* A variant of Expired that already removes an entry exactly one window old.
ExpiredAtWindow(entry, t) == t - entry.lastSeen >= options.errorWindowMs

\* index.js:616: the sweep's test of one entry at time t.
Expired(entry, t) == t - entry.lastSeen > options.errorWindowMs

\* The callback of an active interval: it runs when the interval is due or
\* overdue, deletes every expired entry, and the interval comes due again one
\* period on.
sweep ==
    \E interval \in intervals :
    /\ now >= interval.due
    /\ intervals' = (intervals \ {interval})
                        \cup {[interval EXCEPT !.due = now + interval.period]}
    /\ LET removed == { s \in Signatures :
                          /\ Has(errorCache.errors, s)
                          /\ Expired(errorCache.errors[s], now) }
       IN /\ errorCache' =
               [errors |-> [s \in Signatures |->
                              IF s \in removed THEN NoEntry ELSE errorCache.errors[s]],
                cleanup |-> errorCache.cleanup]
          /\ tally' = [s \in Signatures |-> IF s \in removed THEN TallyZero ELSE tally[s]]
          /\ last' = [op |-> "sweep", removed |-> removed]
    /\ UNCHANGED <<options, now, metrics, heap, stats, recorded, applied, chosen, calls, http>>

\* Time passes between two calls.
Tick ==
    /\ now' = now + 1
    /\ last' = [op |-> "tick"]
    /\ UNCHANGED <<options, errorCache, tally, metrics, heap, stats, recorded, applied, chosen, calls, intervals, http>>

includes(transports, transport) ==
    \E i \in 1..Len(transports) : transports[i] = transport

\* Array.prototype.indexOf, 1-based; 0 when absent.
indexOf(transports, transport) ==
    IF includes(transports, transport)
    THEN CHOOSE i \in 1..Len(transports) :
            /\ transports[i] = transport
            /\ \A j \in 1..(i - 1) : transports[j] # transport
    ELSE 0

addTransport(transport) ==
    /\ LET rejected ==
             IF transport.type = "string"
             THEN transport.name \notin DOMAIN transportRegistry
             ELSE transport.log = None
           pushed ==
             /\ ~rejected
             /\ transport.type = "string" => ~includes(options.transports, transport)
       IN /\ options' = IF pushed
                        THEN [options EXCEPT !.transports = Append(@, transport)]
                        ELSE options
          /\ last' = [op |-> "addTransport", transport |-> transport, threw |-> rejected]
    /\ UNCHANGED <<errorCache, now, tally, metrics, heap, stats, recorded, applied, chosen, calls, intervals, http>>

removeTransport(transport) ==
    /\ LET index == indexOf(options.transports, transport)
           ts == options.transports
       IN options' = IF index # 0
                     THEN [options EXCEPT !.transports =
                              SubSeq(ts, 1, index - 1) \o SubSeq(ts, index + 1, Len(ts))]
                     ELSE options
    /\ last' = [op |-> "removeTransport", transport |-> transport]
    /\ UNCHANGED <<errorCache, now, tally, metrics, heap, stats, recorded, applied, chosen, calls, intervals, http>>

(***************************************************************************)
(* The metrics store.  JavaScript objects that can be shared (the arrays   *)
(* and the timer objects) live in heap and are named by references; plain  *)
(* name -> value objects that the code copies are functions.               *)
(***************************************************************************)
EmptyMap == [n \in {} |-> 0]

\* The names timers are recorded under.
TimerNames == {"x"}

\* The names counters are kept under; the empty string is a name like another.
CounterNames == {"x", ""}

\* if (name): the empty string is falsy.
TruthyName(name) == name # ""

\* object[key] = value
Put(object, key, value) ==
    [n \in DOMAIN object \cup {key} |-> IF n = key THEN value ELSE object[n]]

\* index.js:70-75
EmptyMetrics ==
    [counters |-> EmptyMap, gauges |-> EmptyMap, histograms |-> EmptyMap, timers |-> EmptyMap]

\* No getStats() result is held by a caller.
NoStats == [held |-> FALSE]

\* A reference no object of h has: the allocation of a new object.
NewRef(h) ==
    CHOOSE r \in 1..(Cardinality(DOMAIN h) + 1) :
        /\ r \notin DOMAIN h
        /\ \A q \in 1..(r - 1) : q \in DOMAIN h

Array(items) == [kind |-> "array", items |-> items]

\* index.js:495 and 532: the caps of the timer sample window and of a histogram.
SampleCap == 100
HistogramCap == 1000

Min2(a, b) == IF a < b THEN a ELSE b
Max2(a, b) == IF a > b THEN a ELSE b

\* A variant of pushCapped that keeps the oldest items: once the array is full
\* the new value is not taken.
pushCappedKeepOldest(items, value, cap) ==
    IF Len(items) >= cap THEN items ELSE Append(items, value)

\* push(value), then shift() when the array has grown past cap.
pushCapped(items, value, cap) ==
    LET pushed == Append(items, value)
    IN IF Len(pushed) > cap THEN Tail(pushed) ELSE pushed

\* The references held by the store m and by the caller's snapshot st.
Reachable(m, st, h) ==
    LET hist == { m.histograms[n] : n \in DOMAIN m.histograms }
        tims == { m.timers[n] : n \in DOMAIN m.timers }
        shist == IF st.held THEN { st.histograms[n] : n \in DOMAIN st.histograms } ELSE {}
        salias == IF st.held
                  THEN { st.timers[n].ref : n \in { x \in DOMAIN st.timers : st.timers[x].alias } }
                  ELSE {}
        scopy == IF st.held
                 THEN { st.timers[n].obj.samples :
                          n \in { x \in DOMAIN st.timers : ~st.timers[x].alias } }
                 ELSE {}
        objs == tims \cup salias
    IN hist \cup shist \cup scopy \cup objs \cup { h[r].samples : r \in objs }

\* The garbage collector: objects nobody refers to any more are gone.
Collect(m, st, h) == [r \in Reachable(m, st, h) |-> h[r]]

count(name, increment) ==
    /\ LET current == IF name \in DOMAIN metrics.counters /\ metrics.counters[name] # 0
                      THEN metrics.counters[name]
                      ELSE 0
       IN /\ metrics' = [metrics EXCEPT !.counters = Put(@, name, current + increment)]
          /\ last' = [op |-> "count", name |-> name, increment |-> increment,
                       returned |-> current + increment]
    /\ applied' = [applied EXCEPT ![name] = @ + increment]
    /\ UNCHANGED <<options, errorCache, now, tally, heap, stats, recorded, chosen, calls, intervals, http>>

\* resetCounter(name), and resetCounter() with no name (named is FALSE).
resetCounter(named, name) ==
    /\ metrics' = IF named /\ TruthyName(name)
                  THEN [metrics EXCEPT !.counters = Put(@, name, 0)]
                  ELSE [metrics EXCEPT !.counters = EmptyMap]
    /\ applied' = IF named
                  THEN [applied EXCEPT ![name] = 0]
                  ELSE [n \in CounterNames |-> 0]
    /\ last' = [op |-> "resetCounter", named |-> named, name |-> name]
    /\ UNCHANGED <<options, errorCache, now, tally, heap, stats, recorded, chosen, calls, intervals, http>>

gauge(name, value) ==
    /\ metrics' = [metrics EXCEPT !.gauges = Put(@, name, value)]
    /\ last' = [op |-> "gauge"]
    /\ UNCHANGED <<options, errorCache, now, tally, heap, stats, recorded, applied, chosen, calls, intervals, http>>

recordValue(name, value) ==
    /\ LET created == name \notin DOMAIN metrics.histograms
           ref == IF created THEN NewRef(heap) ELSE metrics.histograms[name]
           items == IF created THEN <<>> ELSE heap[ref].items
       IN /\ metrics' = [metrics EXCEPT !.histograms = Put(@, name, ref)]
          /\ heap' = Put(heap, ref, Array(pushCapped(items, value, HistogramCap)))
    /\ last' = [op |-> "recordValue"]
    /\ UNCHANGED <<options, errorCache, now, tally, stats, recorded, applied, chosen, calls, intervals, http>>

\* The timer object recordTiming creates (min: Infinity is the unit of
\* Math.min, so the first duration becomes the minimum).
recordTiming(name, durationMs) ==
    /\ LET created == name \notin DOMAIN metrics.timers
           sref == IF created THEN NewRef(heap) ELSE heap[metrics.timers[name]].samples
           h1 == IF created THEN Put(heap, sref, Array(<<>>)) ELSE heap
           tref == IF created THEN NewRef(h1) ELSE metrics.timers[name]
           timer == IF created
                    THEN [kind |-> "timer", count |-> 0, total |-> 0, min |-> durationMs,
                          max |-> 0, avg |-> [num |-> 0, den |-> 1], samples |-> sref]
                    ELSE heap[tref]
           updated == [timer EXCEPT
                          !.count = @ + 1,
                          !.total = @ + durationMs,
                          !.min = Min2(@, durationMs),
                          !.max = Max2(@, durationMs),
                          !.avg = [num |-> timer.total + durationMs, den |-> timer.count + 1]]
           h2 == Put(h1, tref, updated)
       IN /\ metrics' = [metrics EXCEPT !.timers = Put(@, name, tref)]
          /\ heap' = Put(h2, sref, Array(pushCapped(h1[sref].items, durationMs, SampleCap)))
    /\ recorded' = [recorded EXCEPT ![name] = Append(@, durationMs)]
    /\ last' = [op |-> "recordTiming"]
    /\ UNCHANGED <<options, errorCache, now, tally, stats, applied, chosen, intervals, http>>

\* The comparator (a, b) => a - b puts a before b when a - b is negative.
ascending(a, b) == a - b < 0

\* Array.prototype.sort((a, b) => a - b) on a copy.
sortAscending(items) == SortSeq(items, ascending)

\* percentile(sortedArray, p) with p = percent / 100.  Math.ceil of the double
\* product equals the exact ceiling for every length up to the sample cap.
percentile(sortedArray, percent) ==
    IF Len(sortedArray) = 0 THEN 0
    ELSE LET index == ((Len(sortedArray) * percent + 99) \div 100) - 1
         IN sortedArray[Max2(0, Min2(Len(sortedArray) - 1, index)) + 1]

\* The structure getStats() returns for the store m over the heap h.  A timer
\* with an empty sample array is returned as the stored object itself; any
\* other timer as a spread copy, whose samples field is the stored array.
getStats(m, h) ==
    [held |-> TRUE,
     counters |-> m.counters,
     gauges |-> m.gauges,
     histograms |-> m.histograms,
     timers |->
        [name \in DOMAIN m.timers |->
            LET timer == h[m.timers[name]]
                sortedSamples == sortAscending(h[timer.samples].items)
            IN IF Len(h[timer.samples].items) = 0
               THEN [alias |-> TRUE, ref |-> m.timers[name]]
               ELSE [alias |-> FALSE,
                     obj |-> [count |-> timer.count, total |-> timer.total,
                              min |-> timer.min, max |-> timer.max, avg |-> timer.avg,
                              samples |-> timer.samples,
                              p50 |-> percentile(sortedSamples, 50),
                              p90 |-> percentile(sortedSamples, 90),
                              p95 |-> percentile(sortedSamples, 95),
                              p99 |-> percentile(sortedSamples, 99)]]]]

GetStats ==
    /\ stats' = getStats(metrics, heap)
    /\ heap' = Collect(metrics, stats', heap)
    /\ last' = [op |-> "getStats"]
    /\ UNCHANGED <<options, errorCache, now, tally, metrics, recorded, applied, chosen, calls, intervals, http>>

resetAllMetrics ==
    /\ metrics' = EmptyMetrics
    /\ heap' = Collect(metrics', stats, heap)
    /\ recorded' = [n \in TimerNames |-> <<>>]
    /\ applied' = [n \in CounterNames |-> 0]
    /\ last' = [op |-> "resetAllMetrics"]
    /\ UNCHANGED <<options, errorCache, now, tally, stats, chosen, calls, intervals, http>>

\* What a reader sees in a returned structure st: every reference replaced by
\* the object it names.
Deref(st, h) ==
    [counters |-> st.counters,
     gauges |-> st.gauges,
     histograms |-> [n \in DOMAIN st.histograms |-> h[st.histograms[n]].items],
     timers |-> [n \in DOMAIN st.timers |->
                   LET obj == IF st.timers[n].alias THEN h[st.timers[n].ref]
                              ELSE st.timers[n].obj
                   IN [obj EXCEPT !.samples = h[obj.samples].items]]]

\* The caller changes the structure it holds from getStats().
\*   what = "counter" / "gauge": st.counters[name] = value (added or changed)
\*   what = "histogram.push" / "histogram.truncate": push(value) / length = 0
\*   what = "timer.count": st.timers[name].count = value
\*   what = "samples.push" / "samples.truncate": on st.timers[name].samples
MutateStats(what, name, value) ==
    /\ stats.held
    /\ CASE what = "counter" ->
              /\ stats' = [stats EXCEPT !.counters = Put(@, name, value)]
              /\ UNCHANGED heap
         [] what = "gauge" ->
              /\ stats' = [stats EXCEPT !.gauges = Put(@, name, value)]
              /\ UNCHANGED heap
         [] what \in {"histogram.push", "histogram.truncate"} ->
              /\ name \in DOMAIN stats.histograms
              /\ LET ref == stats.histograms[name]
                 IN heap' = [heap EXCEPT ![ref].items =
                                IF what = "histogram.push" THEN Append(@, value) ELSE <<>>]
              /\ UNCHANGED stats
         [] what = "timer.count" ->
              /\ name \in DOMAIN stats.timers
              /\ IF stats.timers[name].alias
                 THEN /\ heap' = [heap EXCEPT ![stats.timers[name].ref].count = value]
                      /\ UNCHANGED stats
                 ELSE /\ stats' = [stats EXCEPT !.timers[name].obj.count = value]
                      /\ UNCHANGED heap
         [] what \in {"samples.push", "samples.truncate"} ->
              /\ name \in DOMAIN stats.timers
              /\ LET ref == IF stats.timers[name].alias
                            THEN heap[stats.timers[name].ref].samples
                            ELSE stats.timers[name].obj.samples
                 IN heap' = [heap EXCEPT ![ref].items =
                                IF what = "samples.push" THEN Append(@, value) ELSE <<>>]
              /\ UNCHANGED stats
    /\ last' = [op |-> "mutate", what |-> what]
    /\ UNCHANGED <<options, errorCache, now, tally, metrics, recorded, applied, chosen, calls, intervals, http>>

(***************************************************************************)
(* traceFn.  A callable is described by how it ends: whether it completes  *)
(* synchronously or through a promise, whether it returns or fails, and    *)
(* with what value.  A call of the wrapper is a record in calls; a call    *)
(* whose promise is still open is "pending".                               *)
(***************************************************************************)
\* fn.name of the traced callable, the name its timings are recorded under.
fnName == "x"

ResultValues == {"primitive", "cyclic"}
FailureValues == {"Error", "cyclic"}

Callables ==
    [mode : {"sync", "async"}, ends : {"returns"}, value : ResultValues]
      \cup [mode : {"sync", "async"}, ends : {"throws"}, value : FailureValues]

\* The arguments of a call: none, or one of the kind given.
TraceArgs == {"none", "primitive", "cyclic"}

NotObserved == [how |-> None, value |-> None]

\* What a library call that failed threw: the TypeError of JSON.stringify or
\* of error.name, or what the transport threw.
thrownBy(l) ==
    IF l.op = "error" /\ l.branch = "summary" /\ ~l.handed THEN "TypeError"
    ELSE IF l.out.failure = "formatValue" THEN "TypeError"
    ELSE "TransportError"

\* index.js:357-387 from the point where fn has ended: the body of the try
\* block after fn.apply for a synchronous callable, the then / catch callbacks
\* for a promise.  call is the record of the invocation, i its place in the
\* sequence of invocations all.
afterCallable(call, i, all) ==
    LET fn == call.fn
        ok == IF fn.mode = "sync" THEN "returned" ELSE "resolved"
        failed == IF fn.mode = "sync" THEN "threw" ELSE "rejected"
        fr == formatValue(fn.value)
        r == log("return", "return", "null", NsDefault)
        caught == IF fn.ends = "throws" THEN fn.value
                  ELSE IF fr.threw THEN "TypeError"
                  ELSE IF r.failure # None THEN "TransportError"
                  ELSE None
    IN IF caught = None
       THEN /\ recordTiming(fnName, 0)
            /\ calls' = [all EXCEPT ![i] =
                            [call EXCEPT !.state = "done",
                                         !.observed = [how |-> ok, value |-> fn.value]]]
            /\ UNCHANGED <<errorCache, tally>>
       ELSE /\ logError(NsDefault, IF fn.ends = "throws" THEN fn.value ELSE "Error")
            /\ calls' = [all EXCEPT ![i] =
                            [call EXCEPT !.state = "done",
                                         !.errorHanded = TRUE,
                                         !.errorOut = last'.out,
                                         !.observed =
                                            [how |-> failed,
                                             value |-> IF Threw(last') THEN thrownBy(last')
                                                       ELSE caught]]]
            /\ UNCHANGED <<options, now, metrics, heap, stats, recorded, applied, chosen, intervals, http>>

\* The wrapper traceFn(fn) returns, called with args.  logger is the namespace
\* of the namespaced logger the wrapper was made by (index.js:699), which
\* traceFn has no parameter for.
traced(logger, fn, arg) ==
    LET fa == IF arg = "none" THEN [threw |-> FALSE, text |-> ""] ELSE formatValue(arg)
        t == log("trace", "call", "null", NsDefault)
        call == [logger |-> logger, fn |-> fn, arg |-> arg, state |-> "pending",
                 invoked |-> TRUE, trace |-> t, errorHanded |-> FALSE,
                 errorOut |-> NoCall, observed |-> NotObserved]
        aborted(value, out) ==
            /\ calls' = Append(calls, [call EXCEPT !.state = "done", !.invoked = FALSE,
                                                   !.trace = out,
                                                   !.observed = [how |-> "threw", value |-> value]])
            /\ last' = [op |-> "traceFn", logger |-> logger, level |-> "trace",
                        namespace |-> NsDefault, out |-> out]
            /\ UNCHANGED <<options, errorCache, now, tally, metrics, heap, stats,
                           recorded, applied, chosen, intervals, http>>
    IN IF fa.threw THEN aborted("TypeError", NoCall)
       ELSE IF t.failure # None THEN aborted("TransportError", t)
       ELSE IF fn.mode = "async"
       THEN /\ calls' = Append(calls, call)
            /\ last' = [op |-> "traceFn", logger |-> logger, level |-> "trace",
                        namespace |-> NsDefault, out |-> t]
            /\ UNCHANGED <<options, errorCache, now, tally, metrics, heap, stats,
                           recorded, applied, chosen, intervals, http>>
       ELSE afterCallable(call, Len(calls) + 1, Append(calls, call))

\* The promise of the pending call i settles.
Settle(i) ==
    /\ calls[i].state = "pending"
    /\ afterCallable(calls[i], i, calls)

\* inspect(obj, name) of a namespaced logger (index.js:700) and of dbg.
inspect(logger) ==
    /\ last' = [op |-> "inspect", logger |-> logger, handed |-> TRUE, level |-> "info",
                namespace |-> NsDefault, metadata |-> "null",
                out |-> log("info", "inspect", "null", NsDefault)]
    /\ UNCHANGED <<options, errorCache, now, tally, metrics, heap, stats, recorded,
                   applied, chosen, calls, intervals, http>>

(***************************************************************************)
(* HttpTransport (index.js:282-335).  Entries are numbered in the order    *)
(* in which log() accepts them.                                            *)
(***************************************************************************)
\* index.js:285-294 with options.batchSize = HttpBatchSize: an empty queue, no
\* request in flight, the flush timer running.
NewHttpTransport == [logQueue |-> <<>>, flights |-> {}, accepted |-> 0, timer |-> TRUE]

\* flush() up to its await: nothing for an empty queue; otherwise the queue is
\* copied into logsToSend, emptied, and the request for logsToSend is in flight.
flush(h) ==
    IF Len(h.logQueue) = 0 THEN h
    ELSE [h EXCEPT !.logQueue = <<>>, !.flights = @ \cup {h.logQueue}]

\* The variables an HttpTransport does not touch.
HttpRest ==
    UNCHANGED <<options, errorCache, now, tally, metrics, heap, stats, recorded, applied,
                chosen, calls, intervals>>

\* log(logEntry): the entry is pushed, and a queue of batchSize entries or more
\* is flushed.
HttpTransportLog ==
    LET logEntry == http.accepted + 1
        pushed == [http EXCEPT !.logQueue = Append(@, logEntry), !.accepted = logEntry]
    IN /\ http' = IF Len(pushed.logQueue) >= HttpBatchSize THEN flush(pushed) ELSE pushed
       /\ last' = [op |-> "http.log", entry |-> logEntry]
       /\ HttpRest

\* The callback of the transport's interval, while the timer is not cleared.
HttpTimerFlush ==
    /\ http.timer
    /\ http' = flush(http)
    /\ last' = [op |-> "http.timer"]
    /\ HttpRest

\* The request for logsToSend ends with an ok response: flush() returns.
HttpDelivered(logsToSend) ==
    /\ logsToSend \in http.flights
    /\ http' = [http EXCEPT !.flights = @ \ {logsToSend}]
    /\ last' = [op |-> "http.delivered", batch |-> logsToSend]
    /\ HttpRest

\* The request fails or the response is not ok: the catch block puts
\* logsToSend in front of what the queue holds by then.
HttpFailed(logsToSend) ==
    /\ logsToSend \in http.flights
    /\ http' = [http EXCEPT !.flights = @ \ {logsToSend},
                            !.logQueue = logsToSend \o @]
    /\ last' = [op |-> "http.failed", batch |-> logsToSend]
    /\ HttpRest

\* close(): the timer is cleared and the queue is flushed.
HttpClose ==
    /\ http' = flush([http EXCEPT !.timer = FALSE])
    /\ last' = [op |-> "http.close"]
    /\ HttpRest

(***************************************************************************)
(* The state after the module is loaded.                                   *)
(***************************************************************************)
\* index.js:6-20 (the options this model reads)
DefaultOptions ==
    [minLevel |-> "info", enabledNamespaces |-> Wildcard,
     transports |-> <<Str("console")>>, deduplicateErrors |-> FALSE,
     errorWindowMs |-> 60000, maxDuplicateCount |-> 5,
     format |-> TemplateDefault, formatFn |-> "null"]

NoLast == [op |-> "load"]

\* index.js:624: the call of setupErrorCacheCleanup() at load time, at time 0,
\* with no interval held and none active.
AtLoad(opts) == setupErrorCacheCleanup(opts, NoHandle, {}, 0)

\* index.js:78-81 and 624: an empty map, and the interval started at load time.
EmptyCache(opts) ==
    [errors |-> [s \in Signatures |-> NoEntry],
     cleanup |-> AtLoad(opts).cleanup]


InitRest ==
    /\ last = NoLast
    /\ errorCache = EmptyCache(options)
    /\ now = 0
    /\ tally = [s \in Signatures |-> TallyZero]
    /\ metrics = EmptyMetrics
    /\ heap = EmptyMap
    /\ stats = NoStats
    /\ recorded = [n \in TimerNames |-> <<>>]
    /\ applied = [n \in CounterNames |-> 0]
    /\ chosen = NoChoice
    /\ calls = <<>>
    /\ intervals = AtLoad(options).intervals
    /\ http = NewHttpTransport

(***************************************************************************)
(* The logging pipeline under configuration changes.                       *)
(***************************************************************************)
LevelNames == Hierarchy \cup {"success", "verbose", "constructor"}

InitLog ==
    /\ options = DefaultOptions
    /\ InitRest

NextLog ==
    \/ \E method \in LogMethods, namespace \in Namespaces, metadata \in MetaKinds :
          LogCall(method, namespace, metadata)
    \/ \E logger \in {NsDefault, NsDb}, error \in ErrorValues : ErrorCall(logger, error)
    \/ \E logger \in {NsDefault, NsDb} : inspect(logger)
    \/ \E level \in LevelNames : setLevel(level)
    \/ \E level \in Hierarchy \cup {"verbose"} : setOptions([minLevel |-> level])
    \/ \E filter \in Filters : setOptions([enabledNamespaces |-> filter])
    \/ \E transport \in TransportInputs :
          /\ Len(options.transports) < MaxTransports
          /\ addTransport(transport)
    \/ \E transport \in TransportInputs : removeTransport(transport)

SpecLog == InitLog /\ [][NextLog]_vars

(***************************************************************************)
(* Deduplication driven to high counts: the options are those a setOptions *)
(* call before the first error leaves, the clock stands still.             *)
(***************************************************************************)
Cached == { s \in Signatures : Has(errorCache.errors, s) }

\* The error may be logged once more within the bounds maxCount and maxCached.
WithinBounds(error, maxCount, maxCached) ==
    LET s == getErrorSignature(error)
    IN IF Has(errorCache.errors, s)
       THEN errorCache.errors[s].count < maxCount
       ELSE Cardinality(Cached) < maxCached

InitDedup ==
    /\ \E m \in 0..MaxDup, level \in {"info", "fatal"} :
          options = [DefaultOptions EXCEPT !.deduplicateErrors = TRUE,
                                           !.maxDuplicateCount = m,
                                           !.minLevel = level]
    /\ InitRest

NextDedup ==
    \E logger \in {NsDefault, NsDb}, error \in ErrorValues :
        /\ WithinBounds(error, MaxOccurrences, MaxCached)
        /\ ErrorCall(logger, error)

SpecDedup == InitDedup /\ [][NextDedup]_vars

(***************************************************************************)
(* Deduplication over time: the sweep, the clock and changes of the window.*)
(***************************************************************************)
Windows == {2, 4}

SweptErrors == {"Error", "primitive"}

\* The values setOptions gives maxDuplicateCount: the default and one more.
DuplicateCounts == {DefaultOptions.maxDuplicateCount, 1}

InitSweep ==
    /\ \E w \in Windows :
          options = [DefaultOptions EXCEPT !.deduplicateErrors = TRUE,
                                           !.errorWindowMs = w]
    /\ InitRest

NextSweep ==
    \/ \E error \in SweptErrors :
          /\ WithinBounds(error, MaxSwept, Cardinality(SweptErrors))
          /\ ErrorCall(NsDefault, error)
    \/ sweep
    \/ now < MaxTime /\ Tick
    \/ \E w \in Windows : setOptions([errorWindowMs |-> w])
    \/ \E m \in DuplicateCounts : setOptions([maxDuplicateCount |-> m])

SpecSweep == InitSweep /\ [][NextSweep]_vars

(***************************************************************************)
(* The metrics store, getStats and a caller that changes what it got.      *)
(***************************************************************************)
MetricNames == {"x"}

\* The value a metrics call records, and the value a caller writes into a
\* structure it holds.
Recorded == 1
Written == 2

MutationKinds ==
    {"counter", "gauge", "histogram.push", "histogram.truncate",
     "timer.count", "samples.push", "samples.truncate"}

\* The array a push of the caller would lengthen holds fewer than max items.
PushWithinBounds(what, name, max) ==
    CASE what = "histogram.push" ->
            name \in DOMAIN stats.histograms
               => Len(heap[stats.histograms[name]].items) < max
      [] what = "samples.push" ->
            name \in DOMAIN stats.timers
               => Len(Deref(stats, heap).timers[name].samples) < max
      [] OTHER -> TRUE

\* A metric of the given kind may be recorded: the store then holds metrics of
\* at most max kinds.
KindsHeld == { k \in DOMAIN metrics : DOMAIN metrics[k] # {} }

KindWithinBounds(kind, max) == Cardinality(KindsHeld \cup {kind}) <= max

InitStats ==
    /\ options = DefaultOptions
    /\ InitRest

NextStats ==
    \/ \E name \in MetricNames :
          /\ KindWithinBounds("counters", MaxKinds)
          /\ name \in DOMAIN metrics.counters => metrics.counters[name] < MaxCounter
          /\ count(name, 1)
    \/ \E name \in MetricNames, named \in BOOLEAN :
          /\ named => KindWithinBounds("counters", MaxKinds)
          /\ resetCounter(named, name)
    \/ \E name \in MetricNames :
          /\ KindWithinBounds("gauges", MaxKinds)
          /\ gauge(name, Recorded)
    \/ \E name \in MetricNames :
          /\ KindWithinBounds("histograms", MaxKinds)
          /\ name \in DOMAIN metrics.histograms
                => Len(heap[metrics.histograms[name]].items) < MaxSamples
          /\ recordValue(name, Recorded)
    \/ \E name \in MetricNames :
          /\ KindWithinBounds("timers", MaxKinds)
          /\ name \in DOMAIN metrics.timers
                => /\ heap[metrics.timers[name]].count < MaxSamples
                   /\ heap[metrics.timers[name]].total < MaxSamples
                   /\ Len(heap[heap[metrics.timers[name]].samples].items) < MaxSamples
          /\ recordTiming(name, Recorded)
          /\ UNCHANGED calls
    \/ GetStats
    \/ \E what \in MutationKinds, name \in MetricNames :
          /\ stats.held
          /\ PushWithinBounds(what, name, MaxSamples)
          /\ MutateStats(what, name, Written)
    \/ resetAllMetrics

SpecStats == InitStats /\ [][NextStats]_vars

(***************************************************************************)
(* One timer recorded past the cap of its sample window: a caller's loop   *)
(* records the durations 1, 2, 3, ... or MaxRecordings, MaxRecordings - 1, *)
(* ..., reads the statistics at any point and resets the store at any      *)
(* point before it first reads them.                                       *)
(***************************************************************************)
\* The durations the loop may record next, after the durations in done.
LoopDurations(done) ==
    IF done = <<>> THEN {1, MaxRecordings}
    ELSE IF done[1] = 1 THEN {done[Len(done)] + 1}
    ELSE {done[Len(done)] - 1}

InitTiming ==
    /\ options = DefaultOptions
    /\ InitRest

NextTiming ==
    \/ \E name \in TimerNames :
          /\ Len(recorded[name]) < MaxRecordings
          /\ \E durationMs \in LoopDurations(recorded[name]) :
                recordTiming(name, durationMs) /\ UNCHANGED calls
    \/ GetStats
    \/ ~stats.held /\ resetAllMetrics

SpecTiming == InitTiming /\ [][NextTiming]_vars

(***************************************************************************)
(* Claims about the filter, the setters and the fan-out (under SpecLog).   *)
(***************************************************************************)
\* The call recorded in last went through log() (directly, or from logError).
WasLogCall == last.op \in {"log", "error"} /\ last.handed

\* C1: with the wildcard namespace filter and a minimum level L2 of the
\* hierarchy, a log call at a hierarchy level below L2 reaches no transport and
\* a log call at L2 or above reaches every configured transport.
C1_MinLevelDecidesDelivery ==
    ( /\ WasLogCall
      /\ options.enabledNamespaces = Wildcard
      /\ options.minLevel \in Hierarchy
      /\ last.level \in Hierarchy )
    => IF logLevels[last.level] < logLevels[options.minLevel]
       THEN last.out.invoked = {}
       ELSE last.out.invoked = 1..Len(options.transports)

\* C2: setLevel(name) succeeds and makes name the minimum level for each of the
\* six hierarchy names; for every other name it throws and leaves the minimum
\* level as it was.
C2_SetLevelAcceptsExactlyHierarchy ==
    last.op = "setLevel"
    => IF last.level \in {"trace", "debug", "info", "warn", "error", "fatal"}
       THEN ~last.threw /\ options.minLevel = last.level
       ELSE last.threw /\ options.minLevel = last.before

\* C3: under the namespace filter "-auth,db" and a level that passes the level
\* filter, namespace "db" is admitted, namespace "auth" is not, and a namespace
\* matching neither pattern is not.
C3_NegAuthDbFilter ==
    ( /\ last.op = "log"
      /\ options.enabledNamespaces = FilterNegAuthDb
      /\ ~levelBelowMin(last.level) )
    => /\ last.namespace = NsDb => last.out.admitted
       /\ last.namespace = NsAuth => ~last.out.admitted
       /\ last.namespace \in {NsApi, NsDefault} => ~last.out.admitted

\* C4: when the log operation of one sink in the transport list fails, every
\* sink later in the list still receives the entry and the log call does not
\* fail.
C4_SinkFailureIsolated ==
    ( WasLogCall /\ last.out.dispatched )
    => \A i \in 1..Len(options.transports) :
          ( i \in last.out.invoked /\ options.transports[i].log = "throws" )
          => /\ \A j \in (i + 1)..Len(options.transports) : j \in last.out.invoked
             /\ last.out.failure = None

\* C5: an admitted log call does not fail on its metadata; metadata that cannot
\* be serialized is rendered as a type-name placeholder and the entry still
\* reaches the transport fan-out.
C5_UnserializableMetadataDegrades ==
    ( last.op = "log" /\ last.out.admitted )
    => /\ last.out.failure # "formatValue"
       /\ last.metadata = "cyclic"
            => last.out.rendered = "typename" /\ last.out.dispatched

(***************************************************************************)
(* Claims about error deduplication (under SpecDedup and SpecSweep).       *)
(***************************************************************************)
\* What the call recorded in last put before the transports: the message form
\* of the entry that reached the fan-out, or "nothing".
EmittedAs == IF last.handed /\ last.out.dispatched THEN last.branch ELSE "nothing"

\* C6: with deduplication enabled, an error-logging call does not throw for an
\* error object, a plain object, a primitive, null or an absent error, at any
\* occurrence count, the roll-up occurrences included.
C6_ErrorLoggingNeverThrows ==
    ( /\ last.op = "error"
      /\ last.dedup
      /\ last.error \in {"Error", "object", "primitive", "null", "undefined"} )
    => ~Threw(last)

\* C7: with deduplication enabled, maxDuplicateCount = M >= 1 and the error
\* level admitted, the k-th occurrence of a signature is emitted with the
\* original message for k = 1, with the running count for 2 <= k <= M, with the
\* 'further occurrences will be summarized' annotation for k = M + 1, and for
\* k > M + 1 as a roll-up exactly when k - M is a multiple of 10, else not at all.
C7_HandlingByOccurrence ==
    ( /\ last.op = "error"
      /\ last.dedup
      /\ options.maxDuplicateCount >= 1
      /\ shouldLog("error", NsDefault) )
    => LET k == last.k
           M == options.maxDuplicateCount
       IN /\ k = 1 => EmittedAs = "first"
          /\ (2 <= k /\ k <= M) => EmittedAs = "counted"
          /\ k = M + 1 => EmittedAs = "final"
          /\ k > M + 1 => EmittedAs = IF (k - M) % 10 = 0 THEN "summary" ELSE "nothing"

C9_SweepRemovesExactlyStale ==
    [][ last'.op = "sweep"
        => \A s \in Signatures :
              LET e == errorCache.errors[s]
              IN errorCache'.errors[s] =
                    IF e # NoEntry /\ now - e.lastSeen > options.errorWindowMs
                    THEN NoEntry
                    ELSE e ]_vars

\* A sweep has just removed one signature and kept another, which had been
\* seen more than once.
C9_Witness ==
    /\ last.op = "sweep"
    /\ last.removed # {}
    /\ \E s \in Signatures :
          Has(errorCache.errors, s) /\ errorCache.errors[s].count > 1

(***************************************************************************)
(* Claims about the metrics store (under SpecStats).                       *)
(***************************************************************************)
\* What a call of getStats() would return now, read through.
StatsNow == Deref(getStats(metrics, heap), heap)

\* C10: a change the caller makes to the structure it got from getStats does
\* not change the metrics store: what getStats would return is the same before
\* and after the change.
C10_SnapshotIsolation ==
    [][ last'.op = "mutate" => StatsNow' = StatsNow ]_vars

(***************************************************************************)
(* The namespace filter over lists of one or two patterns, negated or not, *)
(* in either order.                                                        *)
(***************************************************************************)
FilterPatterns == {NsAuth, NsDb, <<"-">> \o NsAuth, <<"-">> \o NsDb}

FilterInputs ==
    FilterPatterns \cup { a \o <<",">> \o b : a, b \in FilterPatterns }

InitFilter ==
    /\ \E filter \in FilterInputs :
          options = [DefaultOptions EXCEPT !.enabledNamespaces = filter]
    /\ InitRest

NextFilter ==
    \/ \E method \in {"debug", "info", "fatal"}, namespace \in Namespaces :
          LogCall(method, namespace, "null")
    \/ \E filter \in FilterInputs : setOptions([enabledNamespaces |-> filter])

SpecFilter == InitFilter /\ [][NextFilter]_vars

(***************************************************************************)
(* Rendering under changes of the template and of the format function.     *)
(***************************************************************************)
InitFormat ==
    /\ options = DefaultOptions
    /\ InitRest

NextFormat ==
    \/ \E format \in Templates : setFormat(format)
    \/ \E fn \in FormatFunctions \cup {"notAFunction"} : setFormatFunction(fn)
    \/ \E fn \in FormatFunctions \cup {"null"} : setOptions([formatFn |-> fn])
    \/ \E format \in Templates : setOptions([format |-> format])
    \/ \E method \in {"debug", "info"}, metadata \in {"null", "primitive"} :
          LogCall(method, NsDefault, metadata)

SpecFormat == InitFormat /\ [][NextFormat]_vars

(***************************************************************************)
(* Traced callables, synchronous and asynchronous, under a configuration   *)
(* chosen before the first call.                                           *)
(***************************************************************************)
TraceTransports == {<<Str("console")>>, <<Obj("broken", "throws")>>}

InitTrace ==
    /\ \E level \in {"trace", "info"}, dedup \in BOOLEAN, transports \in TraceTransports :
          options = [DefaultOptions EXCEPT !.minLevel = level,
                                           !.deduplicateErrors = dedup,
                                           !.transports = transports]
    /\ InitRest

NextTrace ==
    \/ \E logger \in {NsDefault, NsDb}, fn \in Callables, arg \in TraceArgs :
          /\ Len(calls) < MaxCalls
          /\ traced(logger, fn, arg)
    \/ \E i \in 1..Len(calls) : Settle(i)
    \/ \E logger \in {NsDefault, NsDb} : inspect(logger)

SpecTrace == InitTrace /\ [][NextTrace]_vars

(***************************************************************************)
(* Counters under several names, with a gauge beside them.                 *)
(***************************************************************************)
Increments == {1, -1, 5}

InitCounters ==
    /\ options = DefaultOptions
    /\ InitRest

NextCounters ==
    \/ \E name \in CounterNames, increment \in Increments :
          /\ applied[name] + increment \in (0 - MaxBelow)..MaxSum
          /\ count(name, increment)
    \/ \E name \in CounterNames, named \in BOOLEAN : resetCounter(named, name)
    \/ \E name \in MetricNames : gauge(name, Recorded)
    \/ resetAllMetrics

SpecCounters == InitCounters /\ [][NextCounters]_vars

(***************************************************************************)
(* Claims about timers, counters and percentiles.                          *)
(***************************************************************************)
RECURSIVE SumOf(_)
SumOf(durations) ==
    IF durations = <<>> THEN 0
    ELSE IF Len(durations) = 1 THEN durations[1]
    ELSE LET half == Len(durations) \div 2
         IN SumOf(SubSeq(durations, 1, half))
              + SumOf(SubSeq(durations, half + 1, Len(durations)))

\* The most recent min(Len(durations), cap) of the durations, in order.
MostRecent(durations, cap) ==
    SubSeq(durations, Max2(1, Len(durations) - cap + 1), Len(durations))

Held(name) == IF name \in DOMAIN metrics.counters THEN metrics.counters[name] ELSE 0

\* C12: after any sequence of count, resetCounter(name) and resetAllMetrics
\* calls over several counter names, the store holds for every name the sum of
\* the increments applied to it since that name was last reset (resetCounter(x)
\* resets x and no other counter), and count returns that sum.
C12_CountersSumSinceReset ==
    /\ \A name \in CounterNames : Held(name) = applied[name]
    /\ last.op = "count" => last.returned = applied[last.name]

\* The element the claim names: index ceil(n * percent / 100) - 1, clamped to
\* [0, n - 1], of the ascending window; 0 for an empty window.
NearestRank(window, percent) ==
    LET n == Len(window)
        ceiling == CHOOSE k \in 0..n : k * 100 >= n * percent /\ (k - 1) * 100 < n * percent
        index == Max2(0, Min2(n - 1, ceiling - 1))
    IN IF n = 0 THEN 0 ELSE sortAscending(window)[index + 1]

\* C13: every timer of a getStats result reports, for p = 0.50, 0.90, 0.95 and
\* 0.99, the nearest-rank element of its current sample window, and 0 when the
\* window is empty.
C13_PercentilesNearestRank ==
    \A name \in DOMAIN StatsNow.timers :
        LET timer == StatsNow.timers[name]
        IN /\ {"p50", "p90", "p95", "p99"} \subseteq DOMAIN timer
           /\ timer.p50 = NearestRank(timer.samples, 50)
           /\ timer.p90 = NearestRank(timer.samples, 90)
           /\ timer.p95 = NearestRank(timer.samples, 95)
           /\ timer.p99 = NearestRank(timer.samples, 99)

(***************************************************************************)
(* Claims about rendering, tracing, transports and namespaces.             *)
(***************************************************************************)
\* The entry of the log call recorded in last, as formatLog reads it.
LastEntry ==
    [level |-> last.level, message |-> "original", metadata |-> last.out.rendered]

\* C14: from setFormatFunction(f) until the next setFormat, every emitted
\* entry's text is f's result and not a substitution on the template; after
\* setFormat(t) with t other than the default template, and until a format
\* function is set, the text is the token substitution on t.
C14_FormatFunctionThenTemplate ==
    ( last.op = "log" /\ last.out.dispatched )
    => /\ chosen.fn # None
            => /\ last.out.formatted.by = "formatFn"
               /\ last.out.formatted.fn = chosen.fn
       /\ ( chosen.fn = None /\ chosen.template \notin {NoChoice.template, TemplateDefault} )
            => /\ last.out.formatted.by = "template"
               /\ last.out.formatted.text = formatLog(chosen.template, LastEntry)

\* What the callable of an invocation gives a caller that calls it directly.
OutcomeOf(fn) ==
    [how |-> IF fn.mode = "sync"
             THEN (IF fn.ends = "returns" THEN "returned" ELSE "threw")
             ELSE (IF fn.ends = "returns" THEN "resolved" ELSE "rejected"),
     value |-> fn.value]

\* C15: the callable traceFn(f) returns gives its caller f's outcome: the
\* value f returns or resolves to, or the failure f throws or rejects with.
C15_WrapperKeepsOutcome ==
    \A i \in 1..Len(calls) :
        calls[i].state = "done" => calls[i].observed = OutcomeOf(calls[i].fn)

\* C16: for a traced asynchronous callable that fails after a delay, with the
\* trace and error levels admitted: the trace entry is emitted at invocation;
\* while the callable is running no error has been logged for the invocation;
\* after the failure the error has gone through logError (and, without
\* deduplication, the error entry is emitted) and the caller observes the
\* original failure.
C16_AsyncFailureOrder ==
    \A i \in 1..Len(calls) :
        LET call == calls[i]
        IN ( /\ call.invoked
             /\ call.fn.mode = "async"
             /\ call.fn.ends = "throws"
             /\ shouldLog("trace", NsDefault)
             /\ shouldLog("error", NsDefault) )
           => /\ call.trace.dispatched
              /\ call.state = "pending"
                    => ~call.errorHanded /\ call.observed = NotObserved
              /\ call.state = "done"
                    => /\ call.errorHanded
                       /\ ~options.deduplicateErrors => call.errorOut.dispatched
                       /\ call.observed = [how |-> "rejected", value |-> call.fn.value]

\* The sink objects with a log function: what a test registers as a sink.
IsSink(transport) == transport.type = "object" /\ transport.log # None

\* An entry emitted now, at a level and namespace the filter admits, reaches
\* the sink.
Receives(sink) ==
    LET out == log("fatal", "original", "null", NsDefault)
    IN \E i \in out.invoked : options.transports[i] = sink

\* C17: a sink object receives every entry emitted while it is registered, and
\* once removeTransport(t) has returned t receives no entry emitted later,
\* whatever addTransport and removeTransport calls came before.
C17_RemovedSinkReceivesNothing ==
    /\ ( last.op = "removeTransport" /\ IsSink(last.transport) )
          => ~Receives(last.transport)
    /\ ( WasLogCall /\ last.out.dispatched )
          => \A i \in 1..Len(options.transports) :
                IsSink(options.transports[i]) => i \in last.out.invoked

\* C18: every entry produced through the logger made for namespace N (its
\* level methods, its error method, its traceFn and its inspect) carries
\* namespace N and passes or fails the namespace filter according to N.
C18_NamespacedLoggerKeepsNamespace ==
    last.op \in {"log", "error", "traceFn", "inspect"}
    => /\ last.namespace = last.logger
       /\ last.op # "traceFn" /\ last.handed
             => last.out.admitted = shouldLog(last.level, last.logger)

\* The namespace matches the remainder of a negated pattern of the filter.
Denied(namespace, filter) ==
    \E i \in 1..Len(split(filter)) :
        /\ startsWithDash(split(filter)[i])
        /\ match(namespace, substring1(split(filter)[i]))

\* C19: under a non-wildcard filter, a namespace that matches the remainder of
\* a negated pattern of the filter is never emitted, whatever other patterns
\* the filter holds and in whatever order.
C19_NegatedPatternExcludes ==
    ( /\ last.op = "log"
      /\ options.enabledNamespaces # Wildcard
      /\ Denied(last.namespace, options.enabledNamespaces) )
    => ~last.out.admitted

\* C20: an error-logging call that the level and namespace filter rejects
\* leaves the error cache as it was: no entry is created and no entry's count
\* or lastSeen changes.
C20_RejectedErrorLeavesCache ==
    [][ ( /\ last'.op = "error"
          /\ options.deduplicateErrors
          /\ ~shouldLog("error", NsDefault) )
        => errorCache' = errorCache ]_vars

(***************************************************************************)
(* The sweep schedule.                                                     *)
(***************************************************************************)
\* The one active interval is the one errorCache.cleanup holds, and its period
\* is half the configured window.
OneSchedule ==
    /\ Cardinality(intervals) = 1
    /\ \A interval \in intervals :
          /\ interval.id = errorCache.cleanup
          /\ 2 * interval.period = options.errorWindowMs

\* A setOptions step with errorWindowMs leaves only an interval started at that
\* moment; one without errorWindowMs leaves the schedule as it was.
ScheduleStep ==
    last'.op = "setOptions" =>
        IF "errorWindowMs" \in last'.keys
        THEN \A interval \in intervals' : interval.due = now + interval.period
        ELSE intervals' = intervals /\ errorCache'.cleanup = errorCache.cleanup

\* C21: after module initialisation and any sequence of setOptions calls exactly
\* one periodic sweep schedule is active and its interval is half the currently
\* configured error window; a setOptions call with errorWindowMs cancels the
\* previous schedule before starting the new one, and a setOptions call without
\* errorWindowMs leaves the schedule unchanged.
C21_OneSweepSchedule == []OneSchedule /\ [][ScheduleStep]_vars

\* C21 witness: time has passed, setOptions has just set the window, and the
\* only active interval is the one started by that call.
C21_Witness ==
    /\ last.op = "setOptions"
    /\ "errorWindowMs" \in last.keys
    /\ now > 0
    /\ options.errorWindowMs = 4
    /\ intervals = {[id |-> errorCache.cleanup, period |-> 2, due |-> now + 2]}
(***************************************************************************)
(* Template and function.                                                  *)
(***************************************************************************)
\* index.js:226-232 under the options opts: what renders the next entry.
Authoritative(opts) ==
    IF opts.formatFn \in FormatFunctions THEN "formatFn"
    ELSE IF opts.format # <<>> /\ opts.format # TemplateDefault THEN "template"
    ELSE "parts"

\* The step sets a format function: setFormatFunction that returns, or
\* setOptions with a function under formatFn.
SetsFunction ==
    \/ last'.op = "setFormatFunction" /\ ~last'.threw
    \/ /\ last'.op = "setOptions"
       /\ last'.keys = {"formatFn"}
       /\ options'.formatFn \in FormatFunctions

\* The step sets a template: setFormat, or setOptions with format.
SetsTemplate ==
    \/ last'.op = "setFormat"
    \/ last'.op = "setOptions" /\ last'.keys = {"format"}

\* A step that sets one of the two leaves the other cleared (no function; the
\* default template) and the one set rendering the next entry.
FormatStep ==
    /\ SetsFunction => /\ Authoritative(options') = "formatFn"
                       /\ options'.format = TemplateDefault
    /\ SetsTemplate => /\ options'.formatFn \notin FormatFunctions
                       /\ options'.format # TemplateDefault
                             => Authoritative(options') = "template"

\* C22: after any sequence of setFormat, setFormatFunction and setOptions calls
\* the format template and the format function are mutually exclusive: setting
\* either one clears the other and makes the one just set authoritative for
\* rendering the next entry.
C22_TemplateAndFunctionExclusive == [][FormatStep]_vars
(***************************************************************************)
(* Timing samples of traced callables.                                     *)
(***************************************************************************)
\* The invocations whose callable ran and has ended, by return or by failure.
Completed == { i \in 1..Len(calls) : calls[i].invoked /\ calls[i].state = "done" }

\* C23: every invocation of an instrumented callable that completes, whether it
\* returns or fails, synchronously or asynchronously, records exactly one timing
\* sample under the callable's name, at completion and not at invocation: the
\* samples recorded under the name are as many as the completed invocations.
C23_OneSamplePerCompletion == Len(recorded[fnName]) = Cardinality(Completed)
(***************************************************************************)
(* The built-in transports by name.                                        *)
(***************************************************************************)
\* index.js:60-67, 710-711: the names the registry holds.
BuiltinNames == DOMAIN transportRegistry

InitBuiltin ==
    /\ options = DefaultOptions
    /\ InitRest

NextBuiltin ==
    \/ \E name \in BuiltinNames \cup {"syslog"} : addTransport(Str(name))
    \/ \E name \in BuiltinNames : removeTransport(Str(name))
    \/ \E level \in {"debug", "info"} : setLevel(level)
    \/ \E method \in {"debug", "info", "error"} : LogCall(method, NsDefault, "null")

SpecBuiltin == InitBuiltin /\ [][NextBuiltin]_vars

\* C24: for each built-in transport name addTransport accepts (console, file,
\* http), once the name is in the transport list every later admitted log call
\* dispatches its entry to that built-in sink and completes without failing.
C24_BuiltinNamesDispatch ==
    ( WasLogCall /\ last.out.admitted )
    => /\ last.out.failure = None
       /\ \A i \in 1..Len(options.transports) :
             ( /\ options.transports[i].type = "string"
               /\ options.transports[i].name \in BuiltinNames )
             => i \in last.out.invoked
(***************************************************************************)
(* The announcement before the roll-ups.                                   *)
(***************************************************************************)
\* The signatures whose count has passed maxDuplicateCount + 1.
PastFinal ==
    { s \in Signatures : /\ Has(errorCache.errors, s)
                         /\ errorCache.errors[s].count > options.maxDuplicateCount + 1 }

\* C25: for every maxDuplicateCount M >= 0, 0 included, with deduplication
\* enabled, a signature whose count has passed M+1 has had exactly one call
\* carrying the 'further occurrences will be summarized' annotation, made at
\* count M+1, and every call made for it after that count is a roll-up summary.
C25_OneAnnouncementBeforeRollups ==
    /\ \A s \in PastFinal : tally[s].final = 1
    /\ ( last.op = "error" /\ last.dedup /\ last.handed )
          => /\ last.branch = "final" => last.k = options.maxDuplicateCount + 1
             /\ last.k > options.maxDuplicateCount + 1 => last.branch = "summary"
(***************************************************************************)
(* Levels outside the hierarchy.                                           *)
(***************************************************************************)
\* index.js:366, 377 and 722: the levels log() is called with that logLevels
\* has no rank for.
OutsideLevels == {"success", "return"}

\* index.js:117-128: the namespace part of shouldLog.
namespaceAdmits(namespace) ==
    \/ options.enabledNamespaces = Wildcard
    \/ LET patterns == split(options.enabledNamespaces)
       IN  \E i \in 1..Len(patterns) : patternAdmits(patterns[i], namespace)

InitOutside ==
    /\ options = DefaultOptions
    /\ InitRest

NextOutside ==
    \/ \E level \in Hierarchy : setLevel(level)
    \/ \E filter \in Filters : setOptions([enabledNamespaces |-> filter])
    \/ \E method \in {"success", "info", "fatal"}, namespace \in Namespaces :
          LogCall(method, namespace, "null")

SpecOutside == InitOutside /\ [][NextOutside]_vars

C27_MinLevelInHierarchy == options.minLevel \in Hierarchy
(***************************************************************************)
(* Occurrences after the window.                                           *)
(***************************************************************************)
\* The entry of signature s has not been seen for more than the window.
Stale(s) ==
    /\ Has(errorCache.errors, s)
    /\ now - errorCache.errors[s].lastSeen > options.errorWindowMs

\* An error call for a signature whose entry is stale is handled as a first
\* sighting: count 1, the original message, firstSeen at the call.
StaleStep ==
    ( /\ last'.op = "error"
      /\ last'.dedup
      /\ Stale(getErrorSignature(last'.error)) )
    => /\ last'.branch = "first"
       /\ errorCache'.errors[getErrorSignature(last'.error)].count = 1
       /\ errorCache'.errors[getErrorSignature(last'.error)].firstSeen = now

\* C28: with deduplication enabled, an occurrence of a signature that arrives
\* more than the configured window after that signature's lastSeen is handled
\* as a first sighting (count 1, original message, fresh firstSeen), whether or
\* not a sweep run has happened between the two occurrences.
C28_StaleOccurrenceIsFirstSighting == [][StaleStep]_vars
(***************************************************************************)
(* One HttpTransport under log calls, flushes and request outcomes.        *)
(***************************************************************************)
InitHttp ==
    /\ options = DefaultOptions
    /\ InitRest

NextHttp ==
    \/ http.accepted < MaxAccepted /\ HttpTransportLog
    \/ HttpTimerFlush
    \/ \E logsToSend \in http.flights : HttpDelivered(logsToSend)
    \/ \E logsToSend \in http.flights : HttpFailed(logsToSend)
    \/ HttpClose

SpecHttp == InitHttp /\ [][NextHttp]_vars

\* C29: under every interleaving of log calls, size-triggered and
\* timer-triggered flushes and delivery successes and failures, two flushes in
\* flight included, the entries not yet delivered are kept in the order in which
\* they were accepted: in the queue an entry accepted earlier precedes every
\* entry accepted later.
C29_QueueInAcceptanceOrder ==
    \A i, j \in 1..Len(http.logQueue) : i < j => http.logQueue[i] < http.logQueue[j]
====
